---- MODULE Spec2Model ----
(***************************************************************************)
(* Model of google.colab._interactive_table (the GVizTable widget) and of  *)
(* google.colab._interactive_table_helper (its formatting pipeline).       *)
(*                                                                         *)
(* Python text is a sequence of one-character strings.  A Python value is  *)
(* a record [k, s, items]: k is the run-time type, s the text that the     *)
(* value carries (the characters of a str/unicode, the decimal digits of   *)
(* an int, the repr of a float, str(x) of an object) and items the         *)
(* contained values (the elements of a list, the wrapped value of a        *)
(* display.HTML object).                                                   *)
(***************************************************************************)
EXTENDS Integers, Sequences, FiniteSets, TLC

VARIABLES DEFAULT_FORMATTERS, self, callerData, args, result, stdout, pc

vars == <<DEFAULT_FORMATTERS, self, callerData, args, result, stdout, pc>>

----------------------------------------------------------------------------
(* Bounds of the explored inputs.                                          *)

MaxStrLen == 3
MaxRows == 2
MaxCols == 2
MaxKeys == 2
MaxBudget == 46

----------------------------------------------------------------------------
(* Python values.                                                          *)

\* The byte 0xFF of a str (not valid UTF-8) / the code point U+00FF of a unicode.
HighChar == "0xFF"

Val(k, s) == [k |-> k, s |-> s, items |-> <<>>]
None == Val("NoneType", <<>>)
PyList(items) == [k |-> "list", s |-> <<>>, items |-> items]
\* display.HTML(x): an object whose _repr_html_() returns x.
HtmlObject(x) == [k |-> "HTML", s |-> <<>>, items |-> <<x>>]

IsBasestring(x) == x.k \in {"str", "unicode"}

\* F(x), with x evaluated once and bound as a value (a definition's parameters
\* and LET definitions are otherwise evaluated at each use).
With(F(_), x) == CHOOSE r \in {F(v) : v \in {x}} : TRUE

\* The concatenation of the sequences of ss, by halves.
Flatten(ss) ==
  With(LAMBDA p :
         LET R[lo \in 1..(Len(p) + 1), hi \in 0..Len(p)] ==
               IF lo > hi THEN <<>>
               ELSE IF lo = hi THEN p[lo]
               ELSE R[lo, (lo + hi) \div 2] \o R[(lo + hi) \div 2 + 1, hi]
         IN R[1, Len(p)],
       ss)

\* sep.join(parts)
Join(sep, parts) ==
  With(LAMBDA p :
         LET R[i \in 0..Len(p)] ==
               IF i = 0 THEN <<>>
               ELSE IF i = 1 THEN p[1]
               ELSE R[i - 1] \o sep \o p[i]
         IN R[Len(p)],
       parts)

Contains(s, c) == \E i \in 1..Len(s) : s[i] = c

HasSub2(s, a, b) == \E i \in 1..(Len(s) - 1) : s[i] = a /\ s[i + 1] = b

Min(a, b) == IF a < b THEN a ELSE b

----------------------------------------------------------------------------
(* cgi.escape and the module-level formatters of _interactive_table.py.    *)

CgiEscapeChar(c) ==
  IF c = "&" THEN <<"&", "a", "m", "p", ";">>
  ELSE IF c = "<" THEN <<"&", "l", "t", ";">>
  ELSE IF c = ">" THEN <<"&", "g", "t", ";">>
  ELSE <<c>>

\* cgi.escape(s) of the Python 2 standard library, quote=None.
CgiEscape(s) == With(LAMBDA p : Flatten([i \in 1..Len(p) |-> CgiEscapeChar(p[i])]), s)

NonunicodePrefix ==
  <<"n", "o", "n", "u", "n", "i", "c", "o", "d", "e", " ",
    "d", "a", "t", "a", ":", " ">>

\* FORCE_TO_LATIN1: 'nonunicode data: %s...' % cgi.escape(x[:100].decode('latin1'))
Latin1Char(c) == IF c = HighChar THEN "U+00FF" ELSE c
FORCE_TO_LATIN1(x) ==
  With(LAMBDA p :
         Val("unicode",
             NonunicodePrefix
               \o CgiEscape([i \in 1..Min(100, Len(p)) |-> Latin1Char(p[i])])
               \o <<".", ".", ".">>),
       x.s)

DEFAULT_NONUNICODE_FORMATTER(x) == FORCE_TO_LATIN1(x)

\* A call that ends in an exception: the value / text that stands for "raised".
RaisedVal == Val("raise", <<>>)
Raised == <<"!raise">>

\* FormatAsText (cgi.escape(x)); cgi.escape needs x.replace, so only text passes.
FormatAsText(x) == IF IsBasestring(x) THEN Val(x.k, CgiEscape(x.s)) ELSE RaisedVal

\* FormatAsHtml (display.HTML(x)).
FormatAsHtml(x) == HtmlObject(x)

Utf8EncodeChar(c) ==
  IF c = "U+00FF" THEN <<"0xC3", "0xBF">> ELSE <<c>>

\* DEFAULT_FORMATTERS[unicode]: lambda x: x.encode('utf8')
EncodeUtf8(x) ==
  With(LAMBDA p : Val("str", Flatten([i \in 1..Len(p) |-> Utf8EncodeChar(p[i])])), x.s)

\* isinstance(x, each) for the type keys that the formatter registries hold.
IsInstance(x, each) ==
  \/ each = x.k
  \/ each = "basestring" /\ IsBasestring(x)

\* The functions that a registry or a custom formatter map can hold.
CallNamed(name, x) ==
  CASE name = "FormatAsText" -> FormatAsText(x)
    [] name = "FormatAsHtml" -> FormatAsHtml(x)
    [] name = "EncodeUtf8" -> EncodeUtf8(x)
    [] OTHER -> x

\* FindFormatter.Formatter: the first entry of formatters.items() whose type
\* matches x formats it; no entry: x unchanged.
FirstMatch(formatters, x) ==
  LET matching == {i \in 1..Len(formatters) : IsInstance(x, formatters[i][1])} IN
  IF matching = {} THEN x
  ELSE CallNamed(formatters[CHOOSE i \in matching : \A j \in matching : i <= j][2], x)

\* FindFormatter(formatters): a closure over the dict object itself.  ref tells
\* which object: the module's DEFAULT_FORMATTERS or the caller's own mapping.
FindFormatter(ref, own) == [f |-> "Formatter", ref |-> ref, own |-> own]
Named(name) == [f |-> name, ref |-> "none", own |-> <<>>]
NoFormatter == Named("None")

\* formatter(x), with the module's DEFAULT_FORMATTERS as it is at the call.
Apply(formatter, x, registry) ==
  IF formatter.f = "Formatter"
  THEN FirstMatch(IF formatter.ref = "global" THEN registry ELSE formatter.own, x)
  ELSE CallNamed(formatter.f, x)

----------------------------------------------------------------------------
(* json.dumps on the values of the model.                                  *)

JsonEscapeChar(c) ==
  CASE c = "\"" -> <<"\\", "\"">>
    [] c = "\\" -> <<"\\", "\\">>
    [] c \in {"U+00FF", "0xC3"} -> <<"\\", "u", "0", "0", "f", "f">>
    [] c = "0xBF" -> <<>>
    [] OTHER -> <<c>>

\* A str decodes as UTF-8 unless it holds the byte 0xFF (0xC3 0xBF, the
\* encoding of U+00FF, decodes to one code point).
RaisesUnicodeDecodeError(x) ==
  \/ x.k = "str" /\ Contains(x.s, HighChar)
  \/ x.k = "list" /\ \E i \in 1..Len(x.items) :
        x.items[i].k = "str" /\ Contains(x.items[i].s, HighChar)

JsonString(s) ==
  With(LAMBDA p :
         <<"\"">> \o Flatten([i \in 1..Len(p) |-> JsonEscapeChar(p[i])]) \o <<"\"">>,
       s)

\* json.dumps of a value that is not a list; an object json does not know goes
\* through default=lambda x: cgi.escape(str(x)).
JsonScalar(x) ==
  CASE x.k = "NoneType" -> <<"n", "u", "l", "l">>
    [] x.k = "bool" -> IF x.s = <<"T", "r", "u", "e">>
                       THEN <<"t", "r", "u", "e">> ELSE <<"f", "a", "l", "s", "e">>
    [] x.k \in {"int", "long", "float"} -> x.s
    [] x.k \in {"str", "unicode"} -> JsonString(x.s)
    [] OTHER -> JsonString(CgiEscape(x.s))

\* json.dumps(x, default=...), defined where it raises no UnicodeDecodeError.
JsonDumps(x) ==
  IF x.k = "list"
  THEN <<"[">> \o Join(<<",", " ">>, [i \in 1..Len(x.items) |-> JsonScalar(x.items[i])])
         \o <<"]">>
  ELSE JsonScalar(x)

----------------------------------------------------------------------------
(* _interactive_table_helper.ToJs                                          *)

Digits == <<"0", "1", "2", "3", "4", "5", "6", "7", "8", "9">>
DigitVal(c) == CHOOSE d \in 0..9 : Digits[d + 1] = c

\* The decimal digits of 2**52.
TwoPow52 ==
  <<"4", "5", "0", "3", "5", "9", "9", "6", "2", "7", "3", "7", "0", "4", "9", "6">>

\* abs(x): the digits without the sign.
AbsDigits(s) == IF s # <<>> /\ s[1] = "-" THEN Tail(s) ELSE s

\* a > b for two numbers given by their decimal digits (no leading zeros).
DigitsGreater(a, b) ==
  \/ Len(a) > Len(b)
  \/ /\ Len(a) = Len(b)
     /\ \E i \in 1..Len(a) :
          /\ DigitVal(a[i]) > DigitVal(b[i])
          /\ \A j \in 1..(i - 1) : a[j] = b[j]

\* isinstance(x, (int, long)) and abs(x) > 2**52; bool is a subclass of int and
\* its value is 0 or 1.
IsBigInteger(x) == x.k \in {"int", "long"} /\ DigitsGreater(AbsDigits(x.s), TwoPow52)

\* hasattr(x, '__html__') / hasattr(x, '_repr_html_'): x = x._repr_html_()
ReprHtmlOf(x) == IF x.k = "HTML" THEN x.items[1] ELSE x

DotAt(s) == CHOOSE i \in 1..Len(s) : s[i] = "."
\* x.is_integer() of a float written as digits "." digits
IsInteger(s) == Contains(s, ".") /\ \A i \in (DotAt(s) + 1)..Len(s) : s[i] = "0"

\* The numpy branch: IsNumpyType(x) and hasattr(x, 'dtype').
NumpyConvert(x) ==
  CASE x.k = "numpy.datetime64" -> Val("str", x.s)
    [] x.k = "numpy.ndarray" -> Val("str", x.s)
    [] x.k = "numpy.bool_" -> Val("bool", x.s)
    [] x.k = "numpy.float64" ->
         IF IsInteger(x.s) THEN Val("int", SubSeq(x.s, 1, DotAt(x.s) - 1))
         ELSE Val("float", x.s)
    [] x.k = "numpy.int64" -> Val("long", x.s)
    [] OTHER -> x

\* '%d' % x
BigToText(x) == IF IsBigInteger(x) THEN Val("str", x.s) ELSE x

\* The value that reaches json.dumps (lines 92-120); RaisedVal if the
\* formatter raised.
Prepared(x, formatter, registry) ==
  LET fx == IF formatter.f = "None" THEN x ELSE Apply(formatter, x, registry) IN
  IF fx = RaisedVal THEN RaisedVal
  ELSE BigToText(NumpyConvert(ReprHtmlOf(fx)))

\* s.replace(a + b, to) for a two-character pattern of two different
\* characters (its occurrences cannot overlap): each a before a b becomes
\* 'to', each b after an a goes, every other character stays.
ReplaceAll(s, a, b, to) ==
  With(LAMBDA p :
         Flatten([i \in 1..Len(p) |->
                   IF p[i] = a /\ i < Len(p) /\ p[i + 1] = b THEN to
                   ELSE IF p[i] = b /\ i > 1 /\ p[i - 1] = a THEN <<>>
                   ELSE <<p[i]>>]),
       s)

EscapeScriptCloseSkipped(result0) == result0

\* result = result.replace('</', '<\\/')
EscapeScriptClose(result0) == ReplaceAll(result0, "<", "/", <<"<", "\\", "/">>)

\* ToJs(el, default_nonunicode_formatter) of an element of a sequence, in the
\* except branch: no formatter, as_string False; elements are not sequences.
ToJsElement(el) ==
  With(LAMBDA x :
         EscapeScriptClose(
           IF RaisesUnicodeDecodeError(x)
           THEN JsonString(DEFAULT_NONUNICODE_FORMATTER(x).s)
           ELSE JsonDumps(x)),
       BigToText(NumpyConvert(ReprHtmlOf(el))))

\* The try/except of lines 125-131.
Dumped(x) ==
  IF ~RaisesUnicodeDecodeError(x) THEN JsonDumps(x)
  ELSE IF IsBasestring(x) THEN JsonString(DEFAULT_NONUNICODE_FORMATTER(x).s)
  ELSE <<"[">>
         \o Join(<<",", " ">>, [i \in 1..Len(x.items) |-> JsonString(ToJsElement(x.items[i]))])
         \o <<"]">>

\* ToJs(x, default_nonunicode_formatter, formatter, as_string); registry is the
\* module's DEFAULT_FORMATTERS at the time of the call.
ToJs(x0, formatter, as_string, registry) ==
  With(LAMBDA x :
         LET double_encode_json == as_string /\ ~IsBasestring(x) IN
         IF x = RaisedVal THEN Raised
         ELSE IF double_encode_json THEN JsonString(EscapeScriptClose(Dumped(x)))
         ELSE EscapeScriptClose(Dumped(x)),
       Prepared(x0, formatter, registry))

----------------------------------------------------------------------------
(* Optional arguments, column labels, printed warnings.                    *)

\* An optional integer argument: not passed (None), or passed with value v.
Unset == [given |-> FALSE, v |-> 0]
Given(n) == [given |-> TRUE, v |-> n]
\* Python's "arg or DEFAULT": None and 0 are both falsy.
OrDefault(arg, default) == IF arg.given /\ arg.v # 0 THEN arg.v ELSE default

\* A column label or a key of the custom formatter mapping: an int or a text.
IntKey(i) == [isint |-> TRUE, i |-> i, name |-> <<>>]
NameKey(name) == [isint |-> FALSE, i |-> 0, name |-> name]
\* The label as the Python value that a header formatter receives.
LabelValue(l) == IF l.isint THEN Val("int", <<Digits[l.i + 1]>>) ELSE Val("str", l.name)

\* One print statement: which warning, and the numbers / the name it reports.
Warning(w, n1, n2, name) == [w |-> w, n1 |-> n1, n2 |-> n2, name |-> name]

----------------------------------------------------------------------------
(* _interactive_table_helper: the caps.                                    *)

DEFAULT_MAX_ROWS == 20000
DEFAULT_MAX_COLUMNS == 20
DEFAULT_ROWS_PER_PAGE == 10
DEFAULT_MAX_DATA_SIZE == 5000000
RowOverhead == 10

Prefix(s, n) == SubSeq(s, 1, Min(Len(s), n))

\* TrimColumns: [columns, printed warnings]
TrimColumns(columns, max_columns) ==
  IF Len(columns) <= max_columns
  THEN [ret |-> columns, out |-> <<>>]
  ELSE [ret |-> Prefix(columns, max_columns),
        out |-> <<Warning("columns", Len(columns), max_columns, <<>>)>>]

\* Lines 187-189 of TrimData: the caller's list after the in-place trim, which
\* happens only when the FIRST row is longer than max_columns.
TrimRows(data, max_columns) ==
  IF Len(data) # 0 /\ Len(data[1]) > max_columns
  THEN [i \in 1..Len(data) |-> Prefix(data[i], max_columns)]
  ELSE data

\* TrimData: [returned data, the caller's list afterwards, printed warnings]
TrimData(data, max_rows, max_columns) ==
  LET d == TrimRows(data, max_columns) IN
  IF Len(d) <= max_rows
  THEN [ret |-> d, caller |-> d, out |-> <<>>]
  ELSE [ret |-> Prefix(d, max_rows), caller |-> d,
        out |-> <<Warning("rows", Len(d), max_rows, <<>>)>>]

----------------------------------------------------------------------------
(* _interactive_table_helper.ProcessCustomFormatters                       *)

\* dict.get(key, None) on a mapping from 0-based column index to formatter.
Get(mapping, i) == IF i \in DOMAIN mapping THEN mapping[i] ELSE NoFormatter

\* mapping[i] = v
Put(mapping, i, v) == [j \in DOMAIN mapping \cup {i} |-> IF j = i THEN v ELSE mapping[j]]

\* Lines 54-61: the warnings of the validity check, keys visited in 'order'.
KeyWarnings(order, columns) ==
  LET column_set == {columns[j] : j \in 1..Len(columns)}
      One(col) ==
        (IF col.isint /\ col.i >= Len(columns)
         THEN <<Warning("index", col.i, Len(columns), <<>>)>> ELSE <<>>)
        \o (IF ~col.isint /\ col \notin column_set
            THEN <<Warning("name", 0, 0, col.name)>> ELSE <<>>)
  IN Flatten([n \in 1..Len(order) |-> One(order[n])])

\* Lines 64-67: the entries keyed by an int, re-keyed by that int.
IntKeyed(formatters) ==
  [i \in {k.i : k \in {k \in DOMAIN formatters : k.isint}} |-> formatters[IntKey(i)]]

\* The text of a label in a warning ('%s' % name).
LabelText(name) == IF name.isint THEN <<Digits[name.i + 1]>> ELSE name.name

ByNameLabelWins(formatters, columns, start) ==
  LET R[n \in 0..Len(columns)] ==
        IF n = 0 THEN start
        ELSE LET i == n - 1
                 name == columns[n]
                 acc == R[n - 1]
             IN IF name \in DOMAIN formatters
                THEN IF i \in DOMAIN acc.ret
                     THEN [acc EXCEPT !.out = Append(@, Warning("collision", i, 0, LabelText(name))),
                                      !.ret = Put(@, i, formatters[name])]
                     ELSE [acc EXCEPT !.ret = Put(@, i, formatters[name])]
                ELSE acc
  IN R[Len(columns)]

\* Lines 69-76: R[n] is [output_formatters, warnings] after the first n columns.
ByName(formatters, columns, start) ==
  LET R[n \in 0..Len(columns)] ==
        IF n = 0 THEN start
        ELSE LET i == n - 1
                 name == columns[n]
                 acc == R[n - 1]
             IN IF name \in DOMAIN formatters
                THEN IF i \in DOMAIN acc.ret
                     THEN [acc EXCEPT !.out = Append(@, Warning("collision", i, 0, LabelText(name)))]
                     ELSE [acc EXCEPT !.ret = Put(@, i, formatters[name])]
                ELSE acc
  IN R[Len(columns)]

\* ProcessCustomFormatters(formatters, columns); 'order' is the order in which
\* the for loop of line 54 visits the keys.  [resolved mapping, warnings]
ProcessCustomFormatters(formatters, columns, order) ==
  IF DOMAIN formatters = {}
  THEN [ret |-> <<>>, out |-> <<>>]
  ELSE ByName(formatters, columns,
              [ret |-> IntKeyed(formatters), out |-> KeyWarnings(order, columns)])

----------------------------------------------------------------------------
(* Column type inference.                                                  *)

\* issubclass(t, numbers.Number): numpy registers its integer and floating
\* types with the numbers ABCs; bool is a subclass of int.
IsNumberType(t) ==
  t \in {"int", "long", "float", "complex", "bool", "numpy.int64", "numpy.float64"}

DetermineColumnTypeBoolIsNumber(data_types) ==
  IF \A t \in data_types : IsNumberType(t) \/ t = "NoneType"
  THEN "number" ELSE "string"

\* DetermineColumnType(data_types)
DetermineColumnType(data_types) ==
  IF \A t \in data_types : (IsNumberType(t) \/ t = "NoneType") /\ t # "bool"
  THEN "number" ELSE "string"

\* The type that GetColumnType records for a cell (lines 217-221).
RecordedType(cell) ==
  IF cell.k = "NoneType" \/ IsNumberType(cell.k) \/ IsBasestring(cell)
  THEN cell.k ELSE "str"

\* GetColumnType(data, column_index), column_index 0-based; defined when every
\* row has the cell (row[column_index] raises IndexError otherwise).
GetColumnType(data, column_index) ==
  DetermineColumnType({RecordedType(data[r][column_index + 1]) : r \in 1..Len(data)})

----------------------------------------------------------------------------
(* _interactive_table_helper.FormatData and ToJsMatrix                     *)

\* A serialized cell: a bare value, or the {'v': raw, 'f': formatted} literal.
Bare(v) == [pair |-> FALSE, v |-> v, f |-> <<>>]
Pair(v, f) == [pair |-> TRUE, v |-> v, f |-> f]

Spaces(n) == [i \in 1..n |-> " "]

\* The text of a cell in the row: the value, or the literal of lines 243-246.
CellText(c) ==
  IF c.pair
  THEN <<"{", "\n">> \o Spaces(12) \o <<"'", "v", "'", ":", " ">> \o c.v \o <<",", "\n">>
         \o Spaces(12) \o <<"'", "f", "'", ":", " ">> \o c.f \o <<",", "\n">>
         \o Spaces(8) \o <<"}">>
  ELSE c.v

\* '[[%s]]' % ('],\n ['.join(values))
Bracketed(values) ==
  <<"[", "[">> \o Join(<<"]", ",", "\n", " ", "[">>, values) \o <<"]", "]">>

\* Lines 234-246: one cell.  A formatter function is always truthy, so
\* "not custom_formatter" is "the mapping has no entry for the column".
FormatCell(cell, column_type, custom_formatter, registry) ==
  LET formatted_value ==
        IF custom_formatter.f # "None" THEN Apply(custom_formatter, cell, registry) ELSE cell
  IN IF formatted_value = RaisedVal THEN Bare(Raised)
     ELSE IF column_type # "number" \/ custom_formatter.f = "None"
          THEN Bare(ToJs(formatted_value, NoFormatter, FALSE, registry))
          ELSE Pair(ToJs(cell, NoFormatter, FALSE, registry),
                    ToJs(formatted_value, NoFormatter, TRUE, registry))

\* The rows whose cells FormatData can index: data[0] is an IndexError on an
\* empty list, and row[column_index] and column_types[column_index] raise
\* IndexError unless every row is as long as data[0].
Rectangular(data) == \A r \in 1..Len(data) : Len(data[r]) = Len(data[1])

\* ',\n'.join(formatted_row)
RowText(row) == Join(<<",", "\n">>, [c \in 1..Len(row) |-> CellText(row[c])])

FormattedRows(data, column_types, custom_formatters, registry) ==
  [r \in 1..Len(data) |->
    [c \in 1..Len(data[r]) |->
      FormatCell(data[r][c], column_types[c], Get(custom_formatters, c - 1), registry)]]

\* FormatData(data, default_formatter, custom_formatters) on a non-empty data:
\* [raised, column_types, rows (the serialized cells), data (the text)]
FormatData(data, custom_formatters, registry) ==
  IF Len(data) = 0 \/ ~Rectangular(data)
  THEN [raised |-> TRUE, column_types |-> <<>>, rows |-> <<>>, data |-> <<>>]
  ELSE With(LAMBDA column_types :
         With(LAMBDA rows :
                IF \E r \in 1..Len(rows) : \E c \in 1..Len(rows[r]) : rows[r][c].v = Raised
                THEN [raised |-> TRUE, column_types |-> <<>>, rows |-> <<>>, data |-> <<>>]
                ELSE [raised |-> FALSE, column_types |-> column_types, rows |-> rows,
                      data |-> Bracketed([r \in 1..Len(rows) |-> RowText(rows[r])])],
              FormattedRows(data, column_types, custom_formatters, registry)),
         [i \in 1..Len(data[1]) |-> GetColumnType(data, i - 1)])

FittingKeepsBreakingRow(lengths, max_data_size) ==
  LET Total[n \in 0..Len(lengths)] ==
        IF n = 0 THEN 0 ELSE Total[n - 1] + lengths[n] + RowOverhead
      over == {n \in 1..Len(lengths) : Total[n] > max_data_size}
  IN IF over = {} THEN Len(lengths)
     ELSE CHOOSE n \in over : \A m \in over : n <= m

\* The loop of lines 162-167 on the row lengths: the index i at which it
\* breaks (the first row whose running total exceeds max_data_size), or
\* len(values) when it runs to the end.
Fitting(lengths, max_data_size) ==
  LET Total[n \in 0..Len(lengths)] ==
        IF n = 0 THEN 0 ELSE Total[n - 1] + lengths[n] + RowOverhead
      over == {n \in 1..Len(lengths) : Total[n] > max_data_size}
  IN IF over = {} THEN Len(lengths)
     ELSE (CHOOSE n \in over : \A m \in over : n <= m) - 1

\* Lines 155-158: each row as ','.join(ToJs(el, ..., custom_formatters.get(i))).
MatrixValues(matrix, custom_formatters, registry) ==
  [r \in 1..Len(matrix) |->
    Join(<<",">>, [c \in 1..Len(matrix[r]) |->
                    ToJs(matrix[r][c], Get(custom_formatters, c - 1), FALSE, registry)])]

\* ToJsMatrix(matrix, default_nonunicode_formatter, custom_formatters,
\* max_data_size): [raised, the returned text, the rows kept, discarded,
\* warnings]; a formatter that raises does so before any row is counted.
ToJsMatrix(matrix, custom_formatters, max_data_size, registry) ==
  With(LAMBDA values :
         IF \E r \in 1..Len(values) : Contains(values[r], "!raise")
         THEN [raised |-> TRUE, ret |-> <<>>, values |-> <<>>, discarded |-> 0, out |-> <<>>]
         ELSE With(LAMBDA i :
                     LET discarded == IF i < Len(values) THEN Len(values) - i ELSE 0 IN
                     [raised |-> FALSE,
                      ret |-> Bracketed(SubSeq(values, 1, i)),
                      values |-> SubSeq(values, 1, i),
                      discarded |-> discarded,
                      out |-> IF discarded # 0
                              THEN <<Warning("size", max_data_size, discarded, <<>>)>>
                              ELSE <<>>],
                   Fitting([r \in 1..Len(values) |-> Len(values[r])], max_data_size)),
       MatrixValues(matrix, custom_formatters, registry))

----------------------------------------------------------------------------
(* _interactive_table.GVizTable                                            *)

NoWidget ==
  [exists |-> FALSE, columns |-> <<>>, data |-> <<>>, custom_formatters |-> <<>>,
   header_formatters |-> <<>>, num_rows_per_page |-> 0, published |-> FALSE]

\* What a rendering yields: nothing yet, '' (already published), the
\* placeholder, the markup with the script of _gen_js, or an exception.
Html(kind, columns, fd) ==
  [kind |-> kind, columns |-> columns, rows |-> fd.rows, data |-> fd.data]
NoFormatted == [rows |-> <<>>, data |-> <<>>]
NoHtml == Html("none", <<>>, NoFormatted)
BlankHtml == Html("blank", <<>>, NoFormatted)
EmptyHtml == Html("The table is empty", <<>>, NoFormatted)
RaisedHtml == Html("raised", <<>>, NoFormatted)

\* str(self.header_formatters[i](column)): the text of the formatted label.
HeaderText(w, i, registry) ==
  Apply(w.header_formatters[i], LabelValue(w.columns[i + 1]), registry).s

\* _gen_js(self.columns, self.data): the column (type, label) pairs and the
\* serialized data of the script.  zip() stops at the shorter of column_types
\* and columns; header_formatters has an entry for every label.
GenJs(w, registry) ==
  With(LAMBDA fd :
         IF fd.raised
         THEN RaisedHtml
         ELSE Html("script",
                   [i \in 1..Min(Len(fd.column_types), Len(w.columns)) |->
                     <<fd.column_types[i], HeaderText(w, i - 1, registry)>>],
                   fd),
       FormatData(w.data, w.custom_formatters, registry))

GetHtmlAlwaysScript(w, registry) == GenJs(w, registry)

\* _get_html
GetHtml(w, registry) ==
  IF Len(w.data) = 0 THEN EmptyHtml ELSE GenJs(w, registry)

\* The widget that __init__ builds (lines 192-221) and what it prints.
NewWidget(columns, data, max_rows, max_columns, custom_formatters, order, publish_immediately, default_formatters) ==
  LET max_cols == OrDefault(max_columns, DEFAULT_MAX_COLUMNS)
      tc == TrimColumns(columns, max_cols)
      td == TrimData(data, OrDefault(max_rows, DEFAULT_MAX_ROWS), max_cols)
      pcf == ProcessCustomFormatters(custom_formatters, columns, order)
      default_formatter ==
        IF default_formatters.given THEN FindFormatter("own", default_formatters.map)
        ELSE FindFormatter("global", <<>>)
      indices == 0..(Len(columns) - 1)
  IN [w |-> [exists |-> TRUE,
             columns |-> tc.ret,
             data |-> td.ret,
             custom_formatters |->
               [i \in DOMAIN pcf.ret \cup indices |->
                 IF i \in DOMAIN pcf.ret THEN pcf.ret[i] ELSE default_formatter],
             header_formatters |-> [i \in indices |-> default_formatter],
             num_rows_per_page |-> DEFAULT_ROWS_PER_PAGE,
             published |-> publish_immediately],
      caller |-> td.caller,
      out |-> tc.out \o td.out \o pcf.out]

\* The default_formatters argument: None, or the caller's own mapping.
UnsetMap == [given |-> FALSE, map |-> <<>>]
GivenMap(m) == [given |-> TRUE, map |-> m]

\* The orders in which a for loop can visit the keys of a dict.
Orders(keys) ==
  {o \in [1..Cardinality(keys) -> keys] :
     \A i, j \in 1..Cardinality(keys) : i # j => o[i] # o[j]}

Called(op, html) == [op |-> op, html |-> html]

\* GVizTable(columns, data, ...): a are the arguments.  With
\* publish_immediately the constructor ends with self.Publish(); an exception
\* there leaves no widget, but the prints and the in-place trim are done.
Construct(a) ==
  /\ pc = "start"
  /\ \E order \in Orders(DOMAIN a.custom_formatters) :
     \E nw \in {NewWidget(a.columns, a.data, a.max_rows, a.max_columns,
                          a.custom_formatters, order, a.publish_immediately,
                          a.default_formatters)} :
     \E html \in {IF a.publish_immediately THEN GetHtml(nw.w, DEFAULT_FORMATTERS)
                   ELSE NoHtml} :
       LET failed == a.publish_immediately /\ html.kind = "raised"
       IN /\ self' = IF failed THEN NoWidget ELSE nw.w
          /\ pc' = IF failed THEN "failed" ELSE "constructed"
          /\ result' = IF a.publish_immediately THEN Called("Publish", html)
                       ELSE Called("__init__", NoHtml)
          /\ callerData' = nw.caller
          /\ stdout' = stdout \o nw.out
  /\ args' = a
  /\ UNCHANGED DEFAULT_FORMATTERS

\* The rows that from_data passes on: extractor results that are not None.
NotNone(extracted) ==
  LET R[n \in 0..Len(extracted)] ==
        IF n = 0 THEN <<>>
        ELSE R[n - 1] \o (IF extracted[n].isnone THEN <<>> ELSE <<extracted[n].row>>)
  IN R[Len(extracted)]

\* from_data(data, extractor, columns, **kwargs): the arguments it hands to
\* GVizTable; columns.given = FALSE is columns=None.
FromDataArgs(extracted, columns, kwargs) ==
  LET data == NotNone(extracted)
      cols1 == IF data = <<>> THEN [given |-> TRUE, labels |-> <<>>] ELSE columns
      cols2 == IF cols1.given THEN cols1.labels
               ELSE [i \in 1..Len(data[1]) |-> IntKey(i - 1)]
  IN [kwargs EXCEPT !.columns = cols2, !.data = data]

\* from_data: the list given to GVizTable is from_data's own, so the caller's
\* iterable is not the list that TrimData trims.
from_data(extracted, columns, kwargs) ==
  /\ Construct(FromDataArgs(extracted, columns, kwargs))

\* EscapeRawText(): DEFAULT_FORMATTERS[basestring] = FormatAsText.  A new key
\* lands anywhere in the dict's iteration order; an existing key keeps its place.
EscapeRawText ==
  /\ pc \in {"start", "constructed"}
  /\ \E at \in 0..Len(DEFAULT_FORMATTERS) :
       DEFAULT_FORMATTERS' =
         IF \E i \in 1..Len(DEFAULT_FORMATTERS) : DEFAULT_FORMATTERS[i][1] = "basestring"
         THEN [i \in 1..Len(DEFAULT_FORMATTERS) |->
                IF DEFAULT_FORMATTERS[i][1] = "basestring"
                THEN <<"basestring", "FormatAsText">> ELSE DEFAULT_FORMATTERS[i]]
         ELSE SubSeq(DEFAULT_FORMATTERS, 1, at) \o <<<<"basestring", "FormatAsText">>>>
                \o SubSeq(DEFAULT_FORMATTERS, at + 1, Len(DEFAULT_FORMATTERS))
  /\ UNCHANGED <<self, callerData, args, result, stdout, pc>>

\* Publish(): display.display(display.HTML(self._get_html()))
Publish ==
  /\ pc = "constructed"
  /\ result' = Called("Publish", GetHtml(self, DEFAULT_FORMATTERS))
  /\ UNCHANGED <<DEFAULT_FORMATTERS, self, callerData, args, stdout, pc>>

\* _repr_html_(): '' if self.published else self._get_html()
ReprHtml ==
  /\ pc = "constructed"
  /\ result' = Called("_repr_html_",
                      IF self.published THEN BlankHtml
                      ELSE GetHtml(self, DEFAULT_FORMATTERS))
  /\ UNCHANGED <<DEFAULT_FORMATTERS, self, callerData, args, stdout, pc>>

----------------------------------------------------------------------------
(* The inputs explored for the widget.                                     *)

SmallDataSize == 15

Five == Val("int", <<"5">>)
Lt == Val("str", <<"<">>)

SeqsUpTo(S, n) == UNION {[1..m -> S] : m \in 0..n}

Letters == <<"a", "b", "c", "d", "e">>
\* The labels ['a', 'b', ...] of n columns.
Labels(n) == [i \in 1..n |-> NameKey(<<Letters[i]>>)]

\* Matrices of any shape, rows of different lengths included.
ShapeData == SeqsUpTo(SeqsUpTo({Five}, MaxCols), MaxRows)

\* Rectangular matrices: all numbers, text in the first column, all text.
TypedCell(palette, c) ==
  CASE palette = "numbers" -> Five
    [] palette = "text first" -> IF c = 1 THEN Lt ELSE Five
    [] OTHER -> Lt
TypedData ==
  {[r \in 1..nr |-> [c \in 1..nc |-> TypedCell(p, c)]] :
     nr \in 0..MaxRows, nc \in 0..MaxCols, p \in {"numbers", "text first", "text"}}

NoCustom == [k \in {} |-> NoFormatter]
CustomInputs ==
  {NoCustom,
   [k \in {IntKey(0)} |-> Named("FormatAsHtml")],
   [k \in {NameKey(<<"b">>)} |-> Named("FormatAsHtml")],
   [k \in {IntKey(1)} |-> Named("FormatAsText")]}

OptInts(n) == {Unset} \cup {Given(v) : v \in 0..n}

\* Constructor calls that vary the shape of the matrix and the caps.
CapInputs ==
  [via : {"GVizTable"},
   columns : {Labels(n) : n \in 0..MaxCols},
   data : ShapeData,
   max_rows : OptInts(MaxRows),
   max_columns : OptInts(MaxCols),
   max_data_size : {Unset},
   custom_formatters : {NoCustom},
   publish_immediately : {FALSE},
   default_formatters : {UnsetMap}]

\* Constructor calls that vary the cell types, the formatters, the size budget
\* and the publishing.
RenderInputs ==
  [via : {"GVizTable"},
   columns : {Labels(n) : n \in 0..MaxCols},
   data : TypedData,
   max_rows : {Unset},
   max_columns : {Unset},
   max_data_size : {Unset, Given(SmallDataSize)},
   custom_formatters : CustomInputs,
   publish_immediately : BOOLEAN,
   default_formatters : {UnsetMap, GivenMap(<<>>)}]

\* from_data calls: each element extracts to a row or to None.
ExtractedInputs ==
  SeqsUpTo({[isnone |-> TRUE, row |-> <<>>],
            [isnone |-> FALSE, row |-> <<Five>>],
            [isnone |-> FALSE, row |-> <<Lt, Five>>]}, MaxRows)
ColumnsArg == {[given |-> FALSE, labels |-> <<>>], [given |-> TRUE, labels |-> Labels(2)]}
Kwargs ==
  [via : {"from_data"}, columns : {<<>>}, data : {<<>>},
   max_rows : {Unset}, max_columns : {Unset}, max_data_size : {Unset},
   custom_formatters : {NoCustom}, publish_immediately : BOOLEAN,
   default_formatters : {UnsetMap}]

NoArgs ==
  [via |-> "none", columns |-> <<>>, data |-> <<>>, max_rows |-> Unset,
   max_columns |-> Unset, max_data_size |-> Unset, custom_formatters |-> NoCustom,
   publish_immediately |-> FALSE, default_formatters |-> UnsetMap]

----------------------------------------------------------------------------
(* The widget's life: module import, then one widget built and rendered,   *)
(* with EscapeRawText() called at any time.                                *)

Init ==
  /\ DEFAULT_FORMATTERS = <<<<"unicode", "EncodeUtf8">>>>
  /\ self = NoWidget
  /\ callerData = <<>>
  /\ args = NoArgs
  /\ result = Called("none", NoHtml)
  /\ stdout = <<>>
  /\ pc = "start"

Next ==
  \/ \E a \in CapInputs \cup RenderInputs : Construct(a)
  \/ \E e \in ExtractedInputs, c \in ColumnsArg, k \in Kwargs : from_data(e, c, k)
  \/ EscapeRawText
  \/ Publish
  \/ ReprHtml

Spec == Init /\ [][Next]_vars

----------------------------------------------------------------------------
(* Claims about the widget, checked under Spec.                            *)

\* The cap that __init__ hands to TrimColumns and TrimData.
ColumnCap == OrDefault(args.max_columns, DEFAULT_MAX_COLUMNS)

\* C1: after a GVizTable is constructed with column cap N, the stored header
\* has at most N labels and every stored row has at most N cells, whatever the
\* lengths of the rows of the input matrix.
C1_ColumnCapOnEveryRow ==
  pc = "constructed" =>
    /\ Len(self.columns) <= ColumnCap
    /\ \A r \in 1..Len(self.data) : Len(self.data[r]) <= ColumnCap

IsPrefix(s, u) == Len(s) <= Len(u) /\ \A i \in 1..Len(s) : s[i] = u[i]

RowWarnings == Len(SelectSeq(stdout, LAMBDA m : m.w = "rows"))

\* C2 as stated: when the input has more rows than the max_rows given to the
\* constructor, the stored data is exactly the first max_rows input rows, in
\* order, and the row warning is printed exactly once; otherwise no row is
\* dropped and no row warning is printed.
C2_RowCapAsGiven ==
  (pc = "constructed" /\ args.max_rows.given) =>
    IF Len(args.data) > args.max_rows.v
    THEN /\ Len(self.data) = args.max_rows.v
         /\ \A r \in 1..Len(self.data) : IsPrefix(self.data[r], args.data[r])
         /\ RowWarnings = 1
    ELSE /\ Len(self.data) = Len(args.data)
         /\ RowWarnings = 0

\* The cap that __init__ hands to TrimData: max_rows, or the default when
\* max_rows is None or 0.
RowCap == OrDefault(args.max_rows, DEFAULT_MAX_ROWS)

\* What the code does in C2's case: the claim's statement with the cap that is
\* in force, which is the given max_rows when it is at least 1 and
\* DEFAULT_MAX_ROWS when it is 0 or not given.  The stored rows are the first
\* rows of the caller's list as the call leaves them (each a prefix of the
\* input row).
C2_RowCap ==
  pc = "constructed" =>
    IF Len(args.data) > RowCap
    THEN /\ Len(self.data) = RowCap
         /\ self.data = SubSeq(callerData, 1, RowCap)
         /\ \A r \in 1..Len(self.data) : IsPrefix(self.data[r], args.data[r])
         /\ RowWarnings = 1
    ELSE /\ Len(self.data) = Len(args.data)
         /\ self.data = callerData
         /\ \A r \in 1..Len(self.data) : IsPrefix(self.data[r], args.data[r])
         /\ RowWarnings = 0

\* Two rows of different lengths, max_rows = 1: the first is kept.
C2_Witness ==
  /\ pc = "constructed"
  /\ args.max_rows = Given(1)
  /\ args.data = <<<<>>, <<Five>>>>
  /\ self.data = <<<<>>>>
  /\ RowWarnings = 1

\* C3: the row data that _gen_js embeds holds only the leading rows whose
\* cumulative size (row length + 10) stays within the widget's max_data_size.
C3_SizeCapOnRender ==
  result.html.kind = "script" =>
    Len(result.html.rows)
      <= Fitting([r \in 1..Len(result.html.rows) |-> Len(RowText(result.html.rows[r]))],
                 OrDefault(args.max_data_size, DEFAULT_MAX_DATA_SIZE))

\* The caller gave a custom formatter for 0-based column i, by index or label.
CallerFormats(i) ==
  \/ IntKey(i) \in DOMAIN args.custom_formatters
  \/ i < Len(args.columns) /\ args.columns[i + 1] \in DOMAIN args.custom_formatters

\* C4: a serialized cell is a {raw, formatted} pair only when a caller-supplied
\* custom formatter applies to its column; with no custom formatters every
\* cell, numeric ones included, is a single bare value.
C4_PairOnlyWithCustomFormatter ==
  result.html.kind = "script" =>
    \A r \in 1..Len(result.html.rows) : \A c \in 1..Len(result.html.rows[r]) :
      result.html.rows[r][c].pair => CallerFormats(c - 1)

\* C9: a widget whose row set is empty renders, by _repr_html_ while
\* unpublished or by Publish, as the 'The table is empty' placeholder, never as
\* a script, and neither the rendering nor the construction raises.
C9_EmptyDataPlaceholder ==
  /\ (pc = "constructed" /\ Len(self.data) = 0
        /\ (result.op = "Publish" \/ (result.op = "_repr_html_" /\ ~self.published)))
       => result.html = EmptyHtml
  /\ pc = "failed" => Len(args.data) # 0

C9_Witness ==
  /\ pc = "constructed"
  /\ args.via = "from_data"
  /\ args.publish_immediately
  /\ Len(self.data) = 0
  /\ result.op = "Publish"
  /\ result.html = EmptyHtml

\* C10: EscapeRawText() never changes what an already constructed widget
\* renders: its cells and headers keep the default formatters that were in
\* force when it was constructed.
C10_DefaultsReadAtConstruction ==
  [][(pc = "constructed" /\ DEFAULT_FORMATTERS' # DEFAULT_FORMATTERS)
       => GetHtml(self, DEFAULT_FORMATTERS') = GetHtml(self, DEFAULT_FORMATTERS)]_vars

\* C11: constructing and rendering a GVizTable leaves the caller's row list
\* and its rows as they were given: after GVizTable(columns, data, ...) and
\* any rendering, the caller's list still holds the rows it was called with,
\* each with its original length and cells.
C11_InputsUnchanged ==
  (pc \in {"constructed", "failed"} /\ args.via = "GVizTable") => callerData = args.data

----------------------------------------------------------------------------
(* ToJs on its own: one call on each explored value.                       *)

\* The registries that the module can hold: as imported, and after
\* EscapeRawText() with either iteration order.
Registries ==
  {<<<<"unicode", "EncodeUtf8">>>>,
   <<<<"unicode", "EncodeUtf8">>, <<"basestring", "FormatAsText">>>>,
   <<<<"basestring", "FormatAsText">>, <<"unicode", "EncodeUtf8">>>>}

AsciiChars == {"<", "/", "\\", "\""}
StrTexts == SeqsUpTo(AsciiChars \cup {HighChar}, MaxStrLen)
UnicodeTexts == SeqsUpTo(AsciiChars \cup {"U+00FF"}, MaxStrLen)

True == Val("bool", <<"T", "r", "u", "e">>)
TwoPow53 ==
  <<"9", "0", "0", "7", "1", "9", "9", "2", "5", "4", "7", "4", "0", "9", "9", "2">>

ScalarSamples ==
  {None, True, Five, Val("int", TwoPow52), Val("long", TwoPow53),
   Val("int", <<"-">> \o TwoPow53), Val("float", <<"5", ".", "5">>),
   Val("numpy.float64", <<"5", ".", "0">>), Val("numpy.float64", <<"5", ".", "5">>),
   Val("numpy.int64", TwoPow53), Val("numpy.bool_", <<"T", "r", "u", "e">>),
   Val("numpy.datetime64", <<"2", "0", "2", "0">>)}

ListItems == {Val("str", <<"<", "/">>), Val("str", <<HighChar>>), Five}

ToJsValues ==
  {Val("str", s) : s \in StrTexts}
    \cup {Val("unicode", s) : s \in UnicodeTexts}
    \cup {Val("object", s) : s \in SeqsUpTo(AsciiChars, MaxStrLen)}
    \cup {Val("numpy.ndarray", s) : s \in SeqsUpTo(AsciiChars, MaxStrLen)}
    \cup {HtmlObject(Val("str", s)) : s \in StrTexts}
    \cup {HtmlObject(Five)}
    \cup ScalarSamples
    \cup {PyList(items) : items \in SeqsUpTo(ListItems, 2)}

ToJsFormatters ==
  {NoFormatter, Named("FormatAsText"), Named("FormatAsHtml"), FindFormatter("global", <<>>)}

InitToJs ==
  /\ DEFAULT_FORMATTERS \in Registries
  /\ self = NoWidget
  /\ callerData = <<>>
  /\ args \in [x : ToJsValues, formatter : ToJsFormatters, as_string : BOOLEAN]
  /\ result = <<>>
  /\ stdout = <<>>
  /\ pc = "call"

\* ToJs(x, DEFAULT_NONUNICODE_FORMATTER, formatter, as_string)
CallToJs ==
  /\ pc = "call"
  /\ result' = ToJs(args.x, args.formatter, args.as_string, DEFAULT_FORMATTERS)
  /\ pc' = "returned"
  /\ UNCHANGED <<DEFAULT_FORMATTERS, self, callerData, args, stdout>>

SpecToJs == InitToJs /\ [][CallToJs]_vars

\* C7: whatever the value, the formatter and as_string (double encoding and
\* the non-unicode fallbacks included), the text that ToJs returns holds no
\* "<" immediately followed by "/".
C7_NoScriptClose ==
  (pc = "returned" /\ result # Raised) => ~HasSub2(result, "<", "/")

\* A list that holds "</" and an undecodable str, forced to a string: the
\* element-wise fallback and the double encoding both run.
C7_Witness ==
  /\ pc = "returned"
  /\ args.x = PyList(<<Val("str", <<"<", "/">>), Val("str", <<HighChar>>)>>)
  /\ args.as_string
  /\ args.formatter = NoFormatter
  /\ result # Raised
  /\ Len(result) > 0

----------------------------------------------------------------------------
(* GetColumnType on its own: one call on each explored matrix.             *)

KindSamples ==
  {None, Five, Val("long", <<"7">>), Val("float", <<"5", ".", "5">>),
   Val("numpy.float64", <<"5", ".", "0">>), True, Val("numpy.bool_", <<"T", "r", "u", "e">>),
   Lt, Val("unicode", <<"a">>), Val("object", <<"2", "0", "2", "0">>)}

\* Two-column matrices: the cells 'column' at 0-based index at, 'other' in
\* the other column.
TwoColumns(column, at, other) ==
  [r \in 1..Len(column) |-> IF at = 0 THEN <<column[r], other>> ELSE <<other, column[r]>>]

ColumnInputs ==
  {[data |-> TwoColumns(column, at, other), column_index |-> at] :
     column \in SeqsUpTo(KindSamples, MaxRows + 1) \ {<<>>},
     at \in {0, 1}, other \in {Five, Lt}}

InitColumnType ==
  /\ DEFAULT_FORMATTERS = <<<<"unicode", "EncodeUtf8">>>>
  /\ self = NoWidget
  /\ callerData = <<>>
  /\ args \in ColumnInputs
  /\ result = "none"
  /\ stdout = <<>>
  /\ pc = "call"

\* GetColumnType(data, column_index)
CallGetColumnType ==
  /\ pc = "call"
  /\ result' = GetColumnType(args.data, args.column_index)
  /\ pc' = "returned"
  /\ UNCHANGED <<DEFAULT_FORMATTERS, self, callerData, args, stdout>>

SpecColumnType == InitColumnType /\ [][CallGetColumnType]_vars

\* A cell that is null or a number that is not a boolean.
NullOrNumber(cell) ==
  cell.k \in {"NoneType", "int", "long", "float", "complex", "numpy.int64", "numpy.float64"}

\* C5: a column is 'number' exactly when every cell in it is null or a
\* non-boolean number; one text, boolean or unrecognized cell anywhere in the
\* column makes it 'string'.
C5_ColumnType ==
  pc = "returned" =>
    /\ result \in {"number", "string"}
    /\ result = "number" <=>
         \A r \in 1..Len(args.data) : NullOrNumber(args.data[r][args.column_index + 1])

\* Numbers and a null, then a boolean in the last row of column 1.
C5_Witness ==
  /\ pc = "returned"
  /\ args.column_index = 1
  /\ args.data = TwoColumns(<<Five, None, True>>, 1, Five)
  /\ result = "string"

----------------------------------------------------------------------------
(* ProcessCustomFormatters on its own.                                     *)

KeySamples ==
  {IntKey(0), IntKey(1), IntKey(MaxCols + 1),
   NameKey(<<"a">>), NameKey(<<"b">>), NameKey(<<"z">>)}
LabelSamples == {NameKey(<<"a">>), NameKey(<<"b">>), IntKey(0), IntKey(1)}

FormatterMaps ==
  UNION {[keys -> {Named("FormatAsText"), Named("FormatAsHtml")}] :
           keys \in {ks \in SUBSET KeySamples : Cardinality(ks) <= MaxKeys}}

InitFormatters ==
  /\ DEFAULT_FORMATTERS = <<<<"unicode", "EncodeUtf8">>>>
  /\ self = NoWidget
  /\ callerData = <<>>
  /\ \E formatters \in FormatterMaps :
     \E columns \in SeqsUpTo(LabelSamples, MaxCols) :
     \E order \in Orders(DOMAIN formatters) :
       args = [formatters |-> formatters, columns |-> columns, order |-> order]
  /\ result = <<>>
  /\ stdout = <<>>
  /\ pc = "call"

\* ProcessCustomFormatters(formatters, columns)
CallProcessCustomFormatters ==
  /\ pc = "call"
  /\ \E r \in {ProcessCustomFormatters(args.formatters, args.columns, args.order)} :
       /\ result' = r.ret
       /\ stdout' = stdout \o r.out
  /\ pc' = "returned"
  /\ UNCHANGED <<DEFAULT_FORMATTERS, self, callerData, args>>

SpecFormatters == InitFormatters /\ [][CallProcessCustomFormatters]_vars

\* The mapping has the positional key i and the label of column i as keys.
BothKeys(i) ==
  /\ IntKey(i) \in DOMAIN args.formatters
  /\ args.columns[i + 1] \in DOMAIN args.formatters

CollisionWarnings(i) ==
  Len(SelectSeq(stdout, LAMBDA m : m.w = "collision" /\ m.n1 = i))

\* C6: when the mapping holds both the positional key i and the label of
\* column i, column i resolves to the positional formatter and a collision
\* warning for i is printed, in whatever order the keys are visited.
C6_PositionalWins ==
  pc = "returned" =>
    \A i \in 0..(Len(args.columns) - 1) :
      BothKeys(i) =>
        /\ i \in DOMAIN result
        /\ result[i] = args.formatters[IntKey(i)]
        /\ CollisionWarnings(i) = 1

C6_Witness ==
  /\ pc = "returned"
  /\ args.columns = <<NameKey(<<"a">>)>>
  /\ DOMAIN args.formatters = {IntKey(0), NameKey(<<"a">>)}
  /\ args.formatters[IntKey(0)] = Named("FormatAsText")
  /\ args.formatters[NameKey(<<"a">>)] = Named("FormatAsHtml")
  /\ result = [i \in {0} |-> Named("FormatAsText")]
  /\ CollisionWarnings(0) = 1

----------------------------------------------------------------------------
(* ToJsMatrix on its own.                                                  *)

RowSamples == {<<>>, <<Five>>, <<Lt, Five>>}

IndexMaps ==
  {NoCustom, [i \in {0} |-> Named("FormatAsHtml")], [i \in {0} |-> Named("FormatAsText")]}

InitMatrix ==
  /\ DEFAULT_FORMATTERS = <<<<"unicode", "EncodeUtf8">>>>
  /\ self = NoWidget
  /\ callerData = <<>>
  /\ args \in [matrix : SeqsUpTo(RowSamples, MaxRows + 1),
               custom_formatters : IndexMaps,
               max_data_size : 0..MaxBudget]
  /\ result = <<>>
  /\ stdout = <<>>
  /\ pc = "call"

\* ToJsMatrix(matrix, DEFAULT_NONUNICODE_FORMATTER, custom_formatters, max_data_size)
CallToJsMatrix ==
  /\ pc = "call"
  /\ \E r \in {ToJsMatrix(args.matrix, args.custom_formatters, args.max_data_size,
                          DEFAULT_FORMATTERS)} :
       /\ result' = r
       /\ stdout' = stdout \o r.out
  /\ pc' = "returned"
  /\ UNCHANGED <<DEFAULT_FORMATTERS, self, callerData, args>>

SpecMatrix == InitMatrix /\ [][CallToJsMatrix]_vars

\* The serialized rows of the call's matrix, and the running total of
\* (row length + 10) over the first n of them.
SerializedRows == MatrixValues(args.matrix, args.custom_formatters, DEFAULT_FORMATTERS)
RunningTotal(n) ==
  LET S[k \in 0..n] == IF k = 0 THEN 0 ELSE S[k - 1] + Len(SerializedRows[k]) + 10
  IN S[n]

\* C8: the rows kept are the longest leading run whose running total of
\* (row length + 10) is at most max_data_size; the rest are discarded and the
\* warning reports total - kept; when all fit nothing is discarded and no
\* warning is printed.
C8_CumulativeSizeCap ==
  (pc = "returned" /\ ~result.raised) =>
    LET kept == Len(result.values)
        total == Len(args.matrix)
    IN /\ kept <= total
       /\ result.values = SubSeq(SerializedRows, 1, kept)
       /\ RunningTotal(kept) <= args.max_data_size
       /\ kept < total => RunningTotal(kept + 1) > args.max_data_size
       /\ result.discarded = total - kept
       /\ result.ret = Bracketed(result.values)
       /\ stdout = IF kept < total
                   THEN <<Warning("size", args.max_data_size, total - kept, <<>>)>>
                   ELSE <<>>

\* Only the first of three rows fits.
C8_Witness ==
  /\ pc = "returned"
  /\ ~result.raised
  /\ Len(args.matrix) = 3
  /\ Len(result.values) = 1
  /\ result.discarded = 2
  /\ Len(stdout) = 1

====
